---------------------------- MODULE Spec2Model ----------------------------
(***************************************************************************)
(* State-machine model of the two stream stages of the voice pipeline:     *)
(*                                                                         *)
(*   ThinkingFillerTransform  (packages/webrtc/src/ThinkingFillerTransform.ts) *)
(*   ElevenLabsTTSTransform   (packages/web/src/transforms/ElevenLabsTTSTransform.ts) *)
(*                                                                         *)
(* Both run on one JavaScript event loop: a handler body (a stream         *)
(* callback, a timer callback, a socket event listener) runs to its next   *)
(* await without interruption, so every action below is one handler body   *)
(* (or the part of an async function between two awaits).                  *)
(***************************************************************************)
EXTENDS Integers, Sequences, FiniteSets, TLC

VARIABLES
  options,         \* ThinkingFillerOptions after the constructor's defaults
  self,            \* the closure record `self` of ThinkingFillerTransform
  timers,          \* the event loop's armed timers of the filler stage
  readable,        \* the filler stage's output: enqueued chunks, closed flag
  uncaught,        \* an exception escaped a timer callback of the filler stage
  turn,            \* history of the current turn (since the last notifyProcessingStarted)
  received,        \* history: the chunks passed to the filler's transform, in order
  notifyCalls,     \* history: number of notifyProcessingStarted calls
  tts,             \* the closure variables of ElevenLabsTTSTransform's constructor
  sockets,         \* every WebSocket created so far, by handle (1, 2, ...)
  promises,        \* state of the promise createConnection returned for each socket
  finals,          \* the finalPromise objects (named by socket handle) already resolved
  call,            \* the transform call in flight: where it is suspended
  drain,           \* the flush call: where it is suspended, its timeout timer
  audio,           \* the synthesis stage's output: enqueued chunks, closed, errored
  remote,          \* history: transform calls, messages and audio payloads received
  heard            \* history: what the inbound messages so far amount to

fillerVars == <<options, self, timers, readable, uncaught, turn, received, notifyCalls>>

adapterVars == <<tts, sockets, promises, finals, call, drain, audio, remote, heard>>

vars == <<fillerVars, adapterVars>>

----------------------------------------------------------------------------
(* Bounds of the model *)

MaxTurns == 2          \* notifyProcessingStarted calls explored
MaxChunks == 2         \* chunks written to the filler stage
MaxCap == 2            \* largest maxFillersPerTurn explored
MaxSockets == 2        \* WebSockets created by the synthesis stage
MaxTokens == 3         \* tokens written to the synthesis stage
MaxMsgs == 3           \* messages received from the remote service

Null == 0

\* The configured fillerPhrases: two of the defaults of lines 67-73.
FillerPhrases == {"Let me see here...", "Hmm, one moment..."}

----------------------------------------------------------------------------
(* ThinkingFillerTransform *)

Token(chunk) == [kind |-> "token", text |-> chunk]
Filler(i) == [kind |-> "filler", text |-> i]

\* clearTimeout / clearInterval of the platform: the timer is disarmed, a
\* stale or already cleared handle is ignored.
clearTimeout(tm, id) == [tm EXCEPT !.timeouts = @ \ {id}]
clearInterval(tm, id) == [tm EXCEPT !.intervals = @ \ {id}]

\* The state a handler of the filler stage works on.
World == [self |-> self, timers |-> timers, readable |-> readable]

\* transform(chunk, controller), lines 101-117.
ThinkingFiller_transformPassthrough(w, chunk) ==
  [w EXCEPT !.readable.queue = Append(@, Token(chunk))]

ThinkingFiller_transformOutOfOrder(w, chunk) ==
  LET w1 == IF w.self.timeoutId # Null
            THEN [w EXCEPT !.timers = clearTimeout(@, w.self.timeoutId),
                           !.self.timeoutId = Null]
            ELSE w
      w2 == IF w1.self.intervalId # Null
            THEN [w1 EXCEPT !.timers = clearInterval(@, w1.self.intervalId),
                            !.self.intervalId = Null]
            ELSE w1
  IN [w2 EXCEPT !.self.hasReceivedResponse = TRUE,
                !.self.isProcessing = FALSE,
                !.readable.queue = <<Token(chunk)>> \o @]

ThinkingFiller_transform(w, chunk) ==
  LET w1 == IF w.self.timeoutId # Null
            THEN [w EXCEPT !.timers = clearTimeout(@, w.self.timeoutId),
                           !.self.timeoutId = Null]
            ELSE w
      w2 == IF w1.self.intervalId # Null
            THEN [w1 EXCEPT !.timers = clearInterval(@, w1.self.intervalId),
                            !.self.intervalId = Null]
            ELSE w1
  IN [w2 EXCEPT !.self.hasReceivedResponse = TRUE,
                !.self.isProcessing = FALSE,
                !.readable.queue = Append(@, Token(chunk))]

\* flush(), lines 119-129.  The stream closes its readable side once the
\* flush callback has returned.
ThinkingFiller_flush(w) ==
  LET w1 == IF w.self.timeoutId # Null
            THEN [w EXCEPT !.timers = clearTimeout(@, w.self.timeoutId),
                           !.self.timeoutId = Null]
            ELSE w
      w2 == IF w1.self.intervalId # Null
            THEN [w1 EXCEPT !.timers = clearInterval(@, w1.self.intervalId),
                            !.self.intervalId = Null]
            ELSE w1
  IN [w2 EXCEPT !.readable.closed = TRUE]

\* cancelPendingFiller(), lines 194-208.
cancelPendingFillerFlagOnly(w) ==
  [w EXCEPT !.self.isProcessing = FALSE]

cancelPendingFillerResetsTurn(w) ==
  LET w1 == IF w.self.timeoutId # Null
            THEN [w EXCEPT !.timers = clearTimeout(@, w.self.timeoutId),
                           !.self.timeoutId = Null]
            ELSE w
      w2 == IF w1.self.intervalId # Null
            THEN [w1 EXCEPT !.timers = clearInterval(@, w1.self.intervalId),
                            !.self.intervalId = Null]
            ELSE w1
  IN [w2 EXCEPT !.self.isProcessing = FALSE,
                !.self.fillersEmittedThisTurn = 0]

cancelPendingFiller(w) ==
  LET w1 == IF w.self.timeoutId # Null
            THEN [w EXCEPT !.timers = clearTimeout(@, w.self.timeoutId),
                           !.self.timeoutId = Null]
            ELSE w
      w2 == IF w1.self.intervalId # Null
            THEN [w1 EXCEPT !.timers = clearInterval(@, w1.self.intervalId),
                            !.self.intervalId = Null]
            ELSE w1
  IN [w2 EXCEPT !.self.isProcessing = FALSE]

\* emitFiller(self), lines 227-248.  `phrase` is the phrase Math.random picked,
\* `cbThrows` says whether the onFillerEmitted callback throws this time.
\* The result is the new state and whether an exception leaves emitFiller:
\* controller.enqueue throws a TypeError on a closed stream (before the
\* counter is incremented), and the callback is called unprotected.
emitFillerNoCount(w, phrase, cbThrows) ==
  IF \/ ~w.self.controller
     \/ w.self.hasReceivedResponse
     \/ w.self.fillersEmittedThisTurn >= options.maxFillersPerTurn
  THEN [w |-> w, threw |-> FALSE]
  ELSE IF w.readable.closed
  THEN [w |-> w, threw |-> TRUE]
  ELSE [w |-> [w EXCEPT !.readable.queue = Append(@, Filler(phrase))],
        threw |-> options.onFillerEmitted /\ cbThrows]

emitFiller(w, phrase, cbThrows) ==
  IF \/ ~w.self.controller
     \/ w.self.hasReceivedResponse
     \/ w.self.fillersEmittedThisTurn >= options.maxFillersPerTurn
  THEN [w |-> w, threw |-> FALSE]
  ELSE IF w.readable.closed
  THEN [w |-> w, threw |-> TRUE]
  ELSE [w |-> [w EXCEPT !.readable.queue = Append(@, Filler(phrase)),
                        !.self.fillersEmittedThisTurn = @ + 1],
        threw |-> options.onFillerEmitted /\ cbThrows]

\* notifyProcessingStarted(), lines 148-167 and the setTimeout call of line
\* 168: the handles of the old timers are cleared but intervalId keeps its
\* stale value; the new threshold timer gets a fresh handle.
notifyProcessingStartedUnchecked(w) ==
  LET id == w.timers.seq + 1
      t1 == IF w.self.timeoutId # Null
            THEN clearTimeout(w.timers, w.self.timeoutId) ELSE w.timers
      t2 == IF w.self.intervalId # Null
            THEN clearInterval(t1, w.self.intervalId) ELSE t1
  IN [w EXCEPT !.self.fillersEmittedThisTurn = 0,
               !.self.isProcessing = TRUE,
               !.self.hasReceivedResponse = FALSE,
               !.self.timeoutId = id,
               !.timers = [t2 EXCEPT !.timeouts = @ \cup {id}, !.seq = id]]

notifyProcessingStartedNoClear(w) ==
  IF ~options.enabled THEN w
  ELSE
  LET id == w.timers.seq + 1
  IN [w EXCEPT !.self.fillersEmittedThisTurn = 0,
               !.self.isProcessing = TRUE,
               !.self.hasReceivedResponse = FALSE,
               !.self.timeoutId = id,
               !.timers = [@ EXCEPT !.timeouts = @ \cup {id}, !.seq = id]]

notifyProcessingStarted(w) ==
  IF ~options.enabled THEN w
  ELSE
  LET id == w.timers.seq + 1
      t1 == IF w.self.timeoutId # Null
            THEN clearTimeout(w.timers, w.self.timeoutId) ELSE w.timers
      t2 == IF w.self.intervalId # Null
            THEN clearInterval(t1, w.self.intervalId) ELSE t1
  IN [w EXCEPT !.self.fillersEmittedThisTurn = 0,
               !.self.isProcessing = TRUE,
               !.self.hasReceivedResponse = FALSE,
               !.self.timeoutId = id,
               !.timers = [t2 EXCEPT !.timeouts = @ \cup {id}, !.seq = id]]

\* The threshold timer's callback, lines 168-187, for the timer with handle
\* `id`.  A one-shot timer is disarmed when it fires.  An exception leaving
\* emitFiller leaves the callback too, before the repeating timer is armed.
\* The repeating timer takes the handle of the threshold timer that arms it.
thresholdCallback(w, id, phrase, cbThrows) ==
  LET w0 == [w EXCEPT !.timers.timeouts = @ \ {id}]
      r == emitFiller(w0, phrase, cbThrows)
  IN IF r.threw THEN [w |-> r.w, threw |-> TRUE]
     ELSE IF options.maxFillersPerTurn > 1
     THEN [w |-> [r.w EXCEPT !.self.intervalId = id,
                             !.timers.intervals = @ \cup {id}],
           threw |-> FALSE]
     ELSE [w |-> r.w, threw |-> FALSE]

\* The repeating timer's callback, lines 173-185.
intervalCallback(w, phrase, cbThrows) ==
  IF /\ w.self.fillersEmittedThisTurn < options.maxFillersPerTurn
     /\ ~w.self.hasReceivedResponse
  THEN emitFiller(w, phrase, cbThrows)
  ELSE IF w.self.intervalId # Null
  THEN [w |-> [w EXCEPT !.timers = clearInterval(@, w.self.intervalId),
                        !.self.intervalId = Null],
        threw |-> FALSE]
  ELSE [w |-> w, threw |-> FALSE]

----------------------------------------------------------------------------
(* Initial state: the state after `new ThinkingFillerTransform(options)`.   *)
(* start(controller) has run inside super(), so self.controller is set.    *)

FillerOptions ==
  [enabled : BOOLEAN, maxFillersPerTurn : 1..MaxCap, onFillerEmitted : BOOLEAN]

NewTurn ==
  [started |-> FALSE, fillers |-> 0, token |-> FALSE, fillersAtToken |-> 0,
   cancelled |-> FALSE, fillersAtCancel |-> 0, cancelHit |-> "none",
   fired |-> FALSE, live |-> FALSE]

InitFillerState ==
  /\ self = [controller |-> TRUE, timeoutId |-> Null, intervalId |-> Null,
             fillersEmittedThisTurn |-> 0, isProcessing |-> FALSE,
             hasReceivedResponse |-> FALSE]
  /\ timers = [timeouts |-> {}, intervals |-> {}, seq |-> 0]
  /\ readable = [queue |-> <<>>, closed |-> FALSE]
  /\ uncaught = FALSE
  /\ turn = NewTurn
  /\ received = <<>>
  /\ notifyCalls = 0

InitFiller ==
  /\ options \in FillerOptions
  /\ InitFillerState

----------------------------------------------------------------------------
(* Actions of the filler stage *)

Install(w) ==
  /\ self' = w.self
  /\ timers' = w.timers
  /\ readable' = w.readable

Grown(w) == Len(w.readable.queue) - Len(readable.queue)

\* The session signals the start of a turn.
NotifyProcessingStarted ==
  /\ notifyCalls < MaxTurns
  /\ LET w == notifyProcessingStarted(World)
     IN /\ Install(w)
        /\ turn' = [NewTurn EXCEPT !.started = options.enabled,
                                   !.live = ~readable.closed]
  /\ notifyCalls' = notifyCalls + 1
  /\ UNCHANGED <<options, uncaught, received>>
  /\ UNCHANGED adapterVars

\* The stream hands a chunk to transform; it does so only while it is open.
\* The stage never reads a chunk's text, so the k-th chunk is named k.
FillerTransform ==
  /\ ~readable.closed
  /\ Len(received) < MaxChunks
  /\ LET chunk == Len(received) + 1
     IN /\ Install(ThinkingFiller_transform(World, chunk))
        /\ received' = Append(received, chunk)
  /\ turn' = IF turn.token THEN turn
             ELSE [turn EXCEPT !.token = TRUE, !.fillersAtToken = turn.fillers]
  /\ UNCHANGED <<options, uncaught, notifyCalls>>
  /\ UNCHANGED adapterVars

\* The writable side is closed: the stream calls flush, once.
FillerFlush ==
  /\ ~readable.closed
  /\ Install(ThinkingFiller_flush(World))
  /\ turn' = [turn EXCEPT !.live = FALSE]
  /\ UNCHANGED <<options, uncaught, received, notifyCalls>>
  /\ UNCHANGED adapterVars

\* The session cancels the turn (barge-in).
CancelPendingFiller ==
  /\ Install(cancelPendingFiller(World))
  /\ turn' = IF turn.cancelled THEN turn
             ELSE [turn EXCEPT !.cancelled = TRUE,
                               !.fillersAtCancel = turn.fillers,
                               !.cancelHit =
                                  IF timers.timeouts # {} THEN "timeout"
                                  ELSE IF timers.intervals # {} THEN "interval"
                                  ELSE "none"]
  /\ UNCHANGED <<options, uncaught, received, notifyCalls>>
  /\ UNCHANGED adapterVars

\* An armed threshold timer fires.
ThresholdTimerFires ==
  \E id \in timers.timeouts, phrase \in FillerPhrases, cbThrows \in BOOLEAN :
    /\ (cbThrows => options.onFillerEmitted)
    /\ LET r == thresholdCallback(World, id, phrase, cbThrows)
       IN /\ Install(r.w)
          /\ uncaught' = (uncaught \/ r.threw)
          /\ turn' = [turn EXCEPT !.fillers = @ + Grown(r.w), !.fired = TRUE]
    /\ UNCHANGED <<options, received, notifyCalls>>
    /\ UNCHANGED adapterVars

\* An armed repeating timer ticks.
IntervalTimerTicks ==
  \E id \in timers.intervals, phrase \in FillerPhrases, cbThrows \in BOOLEAN :
    /\ (cbThrows => options.onFillerEmitted)
    /\ LET r == intervalCallback(World, phrase, cbThrows)
       IN /\ Install(r.w)
          /\ uncaught' = (uncaught \/ r.threw)
          /\ turn' = [turn EXCEPT !.fillers = @ + Grown(r.w)]
    /\ UNCHANGED <<options, received, notifyCalls>>
    /\ UNCHANGED adapterVars

NextFiller ==
  \/ NotifyProcessingStarted
  \/ FillerTransform
  \/ FillerFlush
  \/ CancelPendingFiller
  \/ ThresholdTimerFires
  \/ IntervalTimerTicks

----------------------------------------------------------------------------
(* ElevenLabsTTSTransform *)

\* Outbound protocol messages: lines 45-52 (begin), 139 (token), 157 (end).
BosMessage == [text |-> " ", voice_settings |-> TRUE, try_trigger_generation |-> FALSE]
TokenMessage(token) ==
  [text |-> token, voice_settings |-> FALSE, try_trigger_generation |-> TRUE]
EosMessage == [text |-> "", voice_settings |-> FALSE, try_trigger_generation |-> FALSE]

\* Inbound messages, line 61: { audio?, isFinal?, error? }.  audio is the
\* payload's number in the order the remote sent it, 0 when absent.
Inbound(a, f, e) == [audio |-> a, isFinal |-> f, error |-> e]

\* The state a handler of the synthesis stage works on.
AWorld ==
  [tts |-> tts, sockets |-> sockets, promises |-> promises, finals |-> finals,
   call |-> call, drain |-> drain, audio |-> audio]

IdleCall == [pc |-> "idle", awaits |-> Null, token |-> ""]

\* ws && ws.readyState === WebSocket.OPEN, lines 114, 120, 138, 155.
Usable(a) == a.tts.ws # Null /\ a.sockets[a.tts.ws].readyState = "OPEN"

\* ws.send(...) on the current socket.
wsSend(a, m) == [a EXCEPT !.sockets[a.tts.ws].sent = Append(@, m)]

\* resetFinalPromise(), lines 23-27: a new promise, named by the socket
\* about to be created, and its resolver.
resetFinalPromise(a, id) ==
  [a EXCEPT !.tts.finalPromise = id, !.tts.finalResolve = id]

\* createConnection(), lines 34-40: a new socket in state CONNECTING and the
\* pending promise for it.  The socket's handle names the promise.  A socket
\* has its readyState, the messages sent on it, and whether messages can
\* still arrive on it.
createConnection(a) ==
  LET id == Len(a.sockets) + 1
      a1 == resetFinalPromise(a, id)
  IN [a1 EXCEPT !.sockets = Append(@, [readyState |-> "CONNECTING",
                                       sent |-> <<>>, receiving |-> FALSE]),
                !.promises = Append(@, "pending")]

\* resolve() / reject() of a promise: only a pending promise changes.
settle(a, id, how) ==
  IF a.promises[id] = "pending" THEN [a EXCEPT !.promises[id] = how] ELSE a

\* newWs.on("open"), lines 42-56.
onOpenNoBegin(a, s) ==
  settle([a EXCEPT !.tts.ws = s], s, "resolved")

onOpen(a, s) ==
  LET a1 == [a EXCEPT !.sockets[s].sent = Append(@, BosMessage)]
      a2 == [a1 EXCEPT !.tts.ws = s]
  IN settle(a2, s, "resolved")

\* newWs.on("message"), lines 58-84.  controller.enqueue throws on a closed
\* stream; the catch of line 81 then skips the rest of the handler.
onMessagePrepend(a, s, msg) ==
  LET enq == msg.audio # 0 /\ a.tts.activeController
      threw == enq /\ a.audio.closed
      a1 == IF enq /\ ~threw
            THEN [a EXCEPT !.audio.queue = <<msg.audio>> \o @] ELSE a
  IN IF threw THEN a1
     ELSE IF msg.isFinal /\ a1.tts.finalResolve # Null
     THEN [a1 EXCEPT !.finals = @ \cup {a1.tts.finalResolve},
                     !.tts.finalResolve = Null]
     ELSE a1

onMessageIgnoresFinal(a, s, msg) ==
  LET enq == msg.audio # 0 /\ a.tts.activeController
      threw == enq /\ a.audio.closed
  IN IF enq /\ ~threw
     THEN [a EXCEPT !.audio.queue = Append(@, msg.audio)] ELSE a

onMessage(a, s, msg) ==
  LET enq == msg.audio # 0 /\ a.tts.activeController
      threw == enq /\ a.audio.closed
      a1 == IF enq /\ ~threw
            THEN [a EXCEPT !.audio.queue = Append(@, msg.audio)] ELSE a
  IN IF threw THEN a1
     ELSE IF msg.isFinal /\ a1.tts.finalResolve # Null
     THEN [a1 EXCEPT !.finals = @ \cup {a1.tts.finalResolve},
                     !.tts.finalResolve = Null]
     ELSE a1

\* newWs.on("error"), lines 86-93.
onError(a, s) ==
  LET a1 == IF a.tts.ws = s
            THEN [a EXCEPT !.tts.ws = Null, !.tts.connectionPromise = Null]
            ELSE a
  IN settle(a1, s, "rejected")

\* newWs.on("close"), lines 95-108.
onClose(a, s) ==
  LET a1 == IF a.tts.ws = s
            THEN [a EXCEPT !.tts.ws = Null, !.tts.connectionPromise = Null]
            ELSE a
  IN IF a1.tts.finalResolve # Null
     THEN [a1 EXCEPT !.finals = @ \cup {a1.tts.finalResolve},
                     !.tts.finalResolve = Null]
     ELSE a1

\* transform, lines 138-146, after ensureConnection has returned: the token
\* is sent on a usable socket and dropped otherwise; the call is over.
sendOrDrop(a) ==
  LET a1 == IF Usable(a) THEN wsSend(a, TokenMessage(a.call.token)) ELSE a
  IN [a1 EXCEPT !.call = IdleCall]

\* ensureConnection(), lines 112-127, from its start to its first await (or
\* to its return, after which transform goes on at line 138).
ensureConnectionNoAwait(a) ==
  IF Usable(a) THEN sendOrDrop(a)
  ELSE LET a1 == createConnection(a)
       IN sendOrDrop([a1 EXCEPT !.tts.connectionPromise = Len(a1.sockets)])

ensureConnection(a) ==
  IF Usable(a) THEN sendOrDrop(a)
  ELSE IF a.tts.connectionPromise # Null
  THEN [a EXCEPT !.call.pc = "awaitStored",
                 !.call.awaits = a.tts.connectionPromise]
  ELSE LET a1 == createConnection(a)
       IN [a1 EXCEPT !.tts.connectionPromise = Len(a1.sockets),
                     !.call.pc = "awaitNew",
                     !.call.awaits = Len(a1.sockets)]

\* The continuation of a suspended transform call once the promise it awaits
\* is settled: line 119 (stored attempt) goes on at line 120, line 126 (own
\* attempt) returns to line 138; a rejection is thrown at the await and
\* caught at line 147, which ends the call.  A rejection that left transform
\* would put the stream into its errored state.
resumeTransformUncaught(a) ==
  IF a.call.pc = "idle" THEN a
  ELSE IF a.promises[a.call.awaits] = "pending" THEN a
  ELSE IF a.promises[a.call.awaits] = "rejected"
  THEN [a EXCEPT !.call = IdleCall, !.audio.errored = TRUE]
  ELSE IF a.call.pc = "awaitNew" THEN sendOrDrop(a)
  ELSE IF Usable(a) THEN sendOrDrop(a)
  ELSE LET a1 == createConnection(a)
       IN [a1 EXCEPT !.tts.connectionPromise = Len(a1.sockets),
                     !.call.pc = "awaitNew",
                     !.call.awaits = Len(a1.sockets)]

resumeTransform(a) ==
  IF a.call.pc = "idle" THEN a
  ELSE IF a.promises[a.call.awaits] = "pending" THEN a
  ELSE IF a.promises[a.call.awaits] = "rejected"
  THEN [a EXCEPT !.call = IdleCall]
  ELSE IF a.call.pc = "awaitNew" THEN sendOrDrop(a)
  ELSE IF Usable(a) THEN sendOrDrop(a)
  ELSE LET a1 == createConnection(a)
       IN [a1 EXCEPT !.tts.connectionPromise = Len(a1.sockets),
                     !.call.pc = "awaitNew",
                     !.call.awaits = Len(a1.sockets)]

\* transform(token), lines 133-150, up to its first suspension.
ElevenLabs_transformUnguarded(a, token) ==
  resumeTransform(ensureConnection([a EXCEPT !.call.token = token]))

ElevenLabs_transform(a, token) ==
  IF a.tts.isShuttingDown THEN a
  ELSE resumeTransform(ensureConnection([a EXCEPT !.call.token = token]))

\* flush(), lines 169-177: the part after the race of line 167.  ws.close()
\* on a null ws throws inside the try; close() on an open socket starts the
\* closing handshake.  The stream closes its readable side when the promise
\* flush returned resolves.
finishFlush(a) ==
  LET a1 == IF a.tts.ws # Null /\ a.sockets[a.tts.ws].readyState = "OPEN"
            THEN [a EXCEPT !.sockets[a.tts.ws].readyState = "CLOSING"]
            ELSE a
  IN [a1 EXCEPT !.tts.ws = Null, !.tts.connectionPromise = Null,
                !.drain.pc = "done", !.audio.closed = TRUE]

\* flush(), lines 151-167: up to the await of the race.  A race over a
\* finalPromise that is already resolved is won at once.
ElevenLabs_flushNoTimeout(a) ==
  LET a1 == [a EXCEPT !.tts.isShuttingDown = TRUE]
  IN IF Usable(a1)
     THEN LET a2 == wsSend(a1, EosMessage)
              a3 == [a2 EXCEPT !.drain.race = a2.tts.finalPromise]
          IN IF a3.drain.race \in a3.finals
             THEN finishFlush([a3 EXCEPT !.drain.by = "stale"])
             ELSE [a3 EXCEPT !.drain.pc = "draining"]
     ELSE [a1 EXCEPT !.tts.connectionPromise = Null,
                     !.drain.pc = "done", !.drain.by = "nowait",
                     !.audio.closed = TRUE]

ElevenLabs_flush(a) ==
  LET a1 == [a EXCEPT !.tts.isShuttingDown = TRUE]
  IN IF Usable(a1)
     THEN LET a2 == wsSend(a1, EosMessage)
              a3 == [a2 EXCEPT !.drain.timer = "armed",
                               !.drain.race = a2.tts.finalPromise]
          IN IF a3.drain.race \in a3.finals
             THEN finishFlush([a3 EXCEPT !.drain.by = "stale"])
             ELSE [a3 EXCEPT !.drain.pc = "draining"]
     ELSE [a1 EXCEPT !.tts.connectionPromise = Null,
                     !.drain.pc = "done", !.drain.by = "nowait",
                     !.audio.closed = TRUE]

\* Promise.race of line 167: the race is won as soon as finalPromise is
\* resolved; flush goes on in a later microtask.
raceWon(a, by) ==
  IF a.drain.pc = "draining" /\ a.drain.race \in a.finals
  THEN [a EXCEPT !.drain.pc = "resuming", !.drain.by = by]
  ELSE a

\* The timer callback of lines 161-164: timeoutPromise is resolved, and a
\* flush still waiting at the race goes on.
flushTimeout(a) ==
  LET a1 == [a EXCEPT !.drain.timer = "fired"]
  IN IF a1.drain.pc = "draining"
     THEN finishFlush([a1 EXCEPT !.drain.by = "timeout"])
     ELSE a1

----------------------------------------------------------------------------
(* Initial state of the synthesis stage: after the constructor; start() has *)
(* stored the controller.                                                  *)

InitAdapter ==
  /\ tts = [ws |-> Null, connectionPromise |-> Null, activeController |-> TRUE,
            isShuttingDown |-> FALSE, finalResolve |-> Null,
            finalPromise |-> Null]
  /\ sockets = <<>>
  /\ promises = <<>>
  /\ finals = {}
  /\ call = IdleCall
  /\ drain = [pc |-> "idle", timer |-> "none", race |-> Null, by |-> "none"]
  /\ audio = [queue |-> <<>>, closed |-> FALSE, errored |-> FALSE]
  /\ remote = [audio |-> 0, msgs |-> 0, tokens |-> 0, late |-> 0]
  /\ heard = "nothing"

----------------------------------------------------------------------------
(* Actions of the synthesis stage *)

AInstall(a) ==
  /\ tts' = a.tts
  /\ sockets' = a.sockets
  /\ promises' = a.promises
  /\ finals' = a.finals
  /\ call' = a.call
  /\ drain' = a.drain
  /\ audio' = a.audio

Handles == 1..Len(sockets)

\* Between the event that wins flush's race and flush's continuation only
\* further messages of the same read can be handled.
Resuming == drain.pc = "resuming"

\* The stream calls transform with the next token: one call at a time, none
\* once the writable side was closed (flush called), none once it is
\* errored.  The stage never reads a token's text: the k-th token is the
\* text "k" or the empty text.
TransformCalled ==
  /\ ~Resuming
  /\ call.pc = "idle" /\ drain.pc = "idle" /\ ~audio.errored
  /\ remote.tokens < MaxTokens
  /\ \E token \in {"", ToString(remote.tokens + 1)} :
       LET a == ElevenLabs_transform(AWorld, token)
       IN /\ Len(a.sockets) <= MaxSockets
          /\ AInstall(a)
  /\ remote' = [remote EXCEPT !.tokens = @ + 1]
  /\ UNCHANGED <<heard, fillerVars>>

\* The writable side is closed: the stream calls flush, once, after the
\* last transform call has completed.
FlushCalled ==
  /\ call.pc = "idle" /\ drain.pc = "idle" /\ ~audio.errored
  /\ AInstall(ElevenLabs_flush(AWorld))
  /\ UNCHANGED <<remote, heard, fillerVars>>

\* flush goes on after its race was won by the final signal or a close.
FlushContinues ==
  /\ Resuming
  /\ AInstall(finishFlush(AWorld))
  /\ UNCHANGED <<remote, heard, fillerVars>>

\* The 5000 ms timer of flush fires.
FlushTimeoutFires ==
  /\ ~Resuming
  /\ drain.timer = "armed"
  /\ AInstall(flushTimeout(AWorld))
  /\ UNCHANGED <<remote, heard, fillerVars>>

\* The handshake of socket s succeeds.
SocketOpens ==
  \E s \in Handles :
    /\ ~Resuming
    /\ sockets[s].readyState = "CONNECTING"
    /\ LET a0 == [AWorld EXCEPT !.sockets[s].readyState = "OPEN",
                                !.sockets[s].receiving = TRUE]
       IN AInstall(resumeTransform(onOpen(a0, s)))
    /\ UNCHANGED <<remote, heard, fillerVars>>

\* A transport error on socket s, before or after it opened: the socket
\* goes to CLOSING and "error" is emitted.
SocketErrors ==
  \E s \in Handles :
    /\ ~Resuming
    /\ sockets[s].readyState \in {"CONNECTING", "OPEN"}
    /\ LET a0 == [AWorld EXCEPT !.sockets[s].readyState = "CLOSING",
                                !.sockets[s].receiving = FALSE]
       IN AInstall(resumeTransform(onError(a0, s)))
    /\ UNCHANGED <<remote, heard, fillerVars>>

\* The remote's close frame arrives on socket s (after everything it sent):
\* readyState is CLOSING until the "close" event and no message follows.
RemoteCloseFrame ==
  \E s \in Handles :
    /\ ~Resuming
    /\ sockets[s].readyState = "OPEN"
    /\ sockets' = [sockets EXCEPT ![s].readyState = "CLOSING",
                                  ![s].receiving = FALSE]
    /\ UNCHANGED <<tts, promises, finals, call, drain, audio, remote, heard, fillerVars>>

\* Socket s is closed: after an error, after a closing handshake, or
\* because the transport went away.  "close" is emitted.
SocketCloses ==
  \E s \in Handles :
    /\ ~Resuming
    /\ sockets[s].readyState \in {"OPEN", "CLOSING"}
    /\ LET a0 == [AWorld EXCEPT !.sockets[s].readyState = "CLOSED",
                                !.sockets[s].receiving = FALSE]
       IN AInstall(raceWon(resumeTransform(onClose(a0, s)), "close"))
    /\ UNCHANGED <<remote, heard, fillerVars>>

\* What the messages handled so far amount to: nothing, one audio payload
\* handled while flush waited, that payload followed by a final signal
\* handled while flush still waited, or anything else.
Hear(m) ==
  IF heard = "nothing" /\ drain.pc = "draining" /\ m.audio # 0 /\ ~m.isFinal
  THEN "audio"
  ELSE IF heard = "audio" /\ drain.pc = "draining" /\ m.audio = 0 /\ m.isFinal
  THEN "audioThenFinal"
  ELSE "other"

\* A message of the remote service arrives on socket s: "message" is
\* emitted.  A socket delivers in order, so payloads are numbered as they
\* arrive; it delivers while it is open and, after flush's close(), until
\* the closing handshake is over.
MessageArrives ==
  \E s \in Handles, kind \in {"audio", "final", "audioFinal", "error"} :
    /\ sockets[s].receiving
    /\ remote.msgs < MaxMsgs
    /\ LET hasAudio == kind \in {"audio", "audioFinal"}
           n == IF hasAudio THEN remote.audio + 1 ELSE 0
           m == Inbound(n, kind \in {"final", "audioFinal"}, kind = "error")
       IN /\ AInstall(raceWon(onMessage(AWorld, s, m), "final"))
          /\ remote' = [remote EXCEPT !.msgs = @ + 1,
                                      !.audio = IF hasAudio THEN n ELSE @]
          /\ heard' = Hear(m)
    /\ UNCHANGED fillerVars

\* The transform callback is called although flush has begun.  A stream
\* never does this (it calls flush last); a caller holding the transformer
\* itself can.
LateTransformCalled ==
  /\ ~Resuming
  /\ call.pc = "idle" /\ drain.pc # "idle"
  /\ remote.tokens < MaxTokens
  /\ \E token \in {"", ToString(remote.tokens + 1)} :
       LET a == ElevenLabs_transform(AWorld, token)
       IN /\ Len(a.sockets) <= MaxSockets
          /\ AInstall(a)
  /\ remote' = [remote EXCEPT !.tokens = @ + 1, !.late = @ + 1]
  /\ UNCHANGED <<heard, fillerVars>>

NextAdapter ==
  \/ TransformCalled
  \/ FlushCalled
  \/ FlushContinues
  \/ FlushTimeoutFires
  \/ SocketOpens
  \/ SocketErrors
  \/ RemoteCloseFrame
  \/ SocketCloses
  \/ MessageArrives

----------------------------------------------------------------------------
(* Specifications *)

\* The filler stage alone, for every configuration.
InitFillerOnly == InitFiller /\ InitAdapter

SpecFiller == InitFillerOnly /\ [][NextFiller]_vars

\* The synthesis stage alone; the filler stage keeps its default options
\* (lines 74-77 of ThinkingFillerTransform.ts).
DefaultOptions ==
  [enabled |-> TRUE, maxFillersPerTurn |-> 1, onFillerEmitted |-> FALSE]

InitAdapterOnly == options = DefaultOptions /\ InitFillerState /\ InitAdapter

SpecAdapter == InitAdapterOnly /\ [][NextAdapter]_vars

\* The event loop runs a timer that is due and a continuation whose promise
\* is settled; nothing is assumed of the remote service or the network.
LiveAdapter ==
  /\ SpecAdapter
  /\ WF_vars(FlushTimeoutFires)
  /\ WF_vars(FlushContinues)

\* The synthesis stage driven by a caller that does not keep the stream's
\* order of calls: transform may be called after flush has begun.
NextLateCalls ==
  \/ NextAdapter
  \/ LateTransformCalled

SpecLateCalls == InitAdapterOnly /\ [][NextLateCalls]_vars

----------------------------------------------------------------------------
(* Properties of the filler stage *)

FillersIn(q) == SelectSeq(q, LAMBDA x : x.kind = "filler")
TokensIn(q) == SelectSeq(q, LAMBDA x : x.kind = "token")
TimerArmed == timers.timeouts # {} \/ timers.intervals # {}

\* C2: once transform has processed a real token, no filler phrase is
\* enqueued until the next notifyProcessingStarted (the number of fillers of
\* the turn stays what it was when the token was processed), and a token
\* processed before the threshold timer fired leaves the turn with no filler.
C2_NoFillerAfterToken ==
  turn.token =>
    /\ turn.fillers = turn.fillersAtToken
    /\ (~turn.fired => turn.fillers = 0)
    /\ ~TimerArmed

\* A turn whose token arrived while the threshold timer was still pending.
C2_Witness ==
  /\ turn.started /\ turn.token /\ ~turn.fired
  /\ self.timeoutId = Null /\ timers.seq > 0
  /\ Len(TokensIn(readable.queue)) > 0

\* C3: the number of filler phrases emitted since the most recent
\* notifyProcessingStarted never exceeds maxFillersPerTurn.
C3_FillerCap == turn.fillers <= options.maxFillersPerTurn

\* A turn that reached a cap larger than one through the repeating timer.
C3_Witness ==
  /\ options.maxFillersPerTurn = 2
  /\ turn.fillers = 2
  /\ Len(FillersIn(readable.queue)) >= 2

\* C4: after cancelPendingFiller no further filler phrase is emitted until
\* the next notifyProcessingStarted, whichever timer was armed at the call.
C4_NoFillerAfterCancel ==
  turn.cancelled => (turn.fillers = turn.fillersAtCancel /\ ~TimerArmed)

\* A turn cancelled between two ticks of the repeating timer, below the cap.
C4_Witness ==
  /\ turn.cancelled /\ turn.cancelHit = "interval"
  /\ turn.fillers = 1 /\ options.maxFillersPerTurn > 1

\* C7: in a turn started with enabled = true on an open stream, with no
\* real token and no cancellation, no filler is emitted before the
\* threshold timer fires (and the timer stays armed until then), one is
\* emitted when it fires, exactly one in total when maxFillersPerTurn = 1,
\* and with a larger maximum the repeating timer keeps running until
\* exactly maxFillersPerTurn fillers have been emitted.
UndisturbedTurn == turn.started /\ turn.live /\ ~turn.token /\ ~turn.cancelled

C7_FillersUntilCap ==
  UndisturbedTurn =>
    /\ (~turn.fired => turn.fillers = 0 /\ timers.timeouts # {})
    /\ (turn.fired => turn.fillers >= 1)
    /\ (turn.fired /\ options.maxFillersPerTurn = 1 => turn.fillers = 1)
    /\ (turn.fired /\ timers.intervals = {} =>
          turn.fillers = options.maxFillersPerTurn)
    /\ turn.fillers <= options.maxFillersPerTurn

\* The same statement for a stage whose observer callback never throws.
C7_FillersUntilCapQuietObserver ==
  ~options.onFillerEmitted => C7_FillersUntilCap

\* C8: with enabled = false no filler phrase is ever enqueued and no timer
\* is ever armed, and the real tokens still pass through.
C8_DisabledNeverFills ==
  ~options.enabled =>
    /\ FillersIn(readable.queue) = <<>>
    /\ ~TimerArmed
    /\ timers.seq = 0
    /\ readable.queue = [i \in 1..Len(received) |-> Token(received[i])]

\* A disabled stage that was notified of a turn and forwarded a token.
C8_Witness ==
  /\ ~options.enabled
  /\ notifyCalls > 0
  /\ Len(readable.queue) > 0

----------------------------------------------------------------------------
(* Properties of the synthesis stage *)

Connecting == {s \in Handles : sockets[s].readyState = "CONNECTING"}

\* A socket that never opened has sent nothing: the begin marker is sent in
\* the "open" listener.
NeverOpened(s) == sockets[s].sent = <<>>

\* C1: once flush is called it eventually resolves, whatever the connection
\* does: at the latest when the flush timeout timer fires.
C1_FlushCompletes == (drain.pc # "idle") ~> (drain.pc = "done")

\* A flush that waited on an open connection and was ended by the timer.
C1_Witness == drain.pc = "done" /\ drain.by = "timeout"

AfterFailedAttempt ==
  /\ sockets # <<>>
  /\ sockets[Len(sockets)].readyState = "CLOSED"
  /\ NeverOpened(Len(sockets))
  /\ call.pc = "idle" /\ drain.pc = "idle"

C6_RetryAfterFailedAttempt ==
  [][AfterFailedAttempt =>
       /\ tts.ws = Null /\ tts.connectionPromise = Null
       /\ (remote'.tokens = remote.tokens + 1 =>
             Len(sockets') = Len(sockets) + 1)]_vars

\* C9: the audio chunks enqueued downstream are in the order in which the
\* remote service sent them (payloads are numbered in sending order).
C9_AudioOrder ==
  \A i, j \in 1..Len(audio.queue) :
    i < j => audio.queue[i] < audio.queue[j]

\* Several chunks are in the output, and a payload that arrived after the
\* stream was closed is not.
C9_Witness ==
  /\ Len(audio.queue) >= 2
  /\ remote.audio > Len(audio.queue)

\* C10: tokens were sent on an open connection, flush was called, and while
\* flush waited the remote's only messages arrived: one audio payload, then
\* a final signal.  Then flush is ended by that final signal (not by the
\* timer), the connection is closed and the output holds that one chunk.
Drained == {s \in Handles : sockets[s].sent # <<>> /\
                             sockets[s].sent[Len(sockets[s].sent)] = EosMessage}

DrainScenario ==
  /\ drain.pc = "done"
  /\ heard = "audioThenFinal"
  /\ \E s \in Drained : \E i \in 1..Len(sockets[s].sent) :
       sockets[s].sent[i].try_trigger_generation

C10_FinalEndsFlush ==
  DrainScenario =>
    /\ drain.by = "final"
    /\ tts.ws = Null
    /\ \A s \in Drained : sockets[s].readyState \in {"CLOSING", "CLOSED"}
    /\ audio.queue = <<remote.audio>>
    /\ audio.closed

C10_Witness == DrainScenario /\ drain.timer = "armed"

\* C12: an emission of a filler never lets an exception leave the timer
\* callback, even when the onFillerEmitted callback throws: the filler is
\* enqueued and counted, and when the emission is the threshold timer's
\* and maxFillersPerTurn > 1 the repeating timer is armed afterwards.
FillerEmitted ==
  /\ Len(readable'.queue) = Len(readable.queue) + 1
  /\ readable'.queue[Len(readable'.queue)].kind = "filler"

C12_ObserverIsolated ==
  [][FillerEmitted =>
       /\ uncaught' = uncaught
       /\ self'.fillersEmittedThisTurn = self.fillersEmittedThisTurn + 1
       /\ (timers'.timeouts # timers.timeouts /\ options.maxFillersPerTurn > 1 =>
             self'.intervalId # Null /\ timers'.intervals # {})]_vars

\* C13: the output with the filler phrases removed is the sequence of the
\* chunks passed to transform, unchanged and in the order of receipt.
C13_TokensForwarded ==
  TokensIn(readable.queue) = [i \in 1..Len(received) |-> Token(received[i])]

\* Two real tokens with a filler emitted between them.
C13_Witness ==
  /\ Len(received) = 2
  /\ Len(readable.queue) >= 3
  /\ readable.queue[1].kind = "token"
  /\ readable.queue[2].kind = "filler"
  /\ readable.queue[Len(readable.queue)].kind = "token"

\* C14: a transform call made once flush has begun changes nothing: no
\* message is sent on any socket, no socket is created, no attempt stored.
C14_LateTokenDropped ==
  [][tts.isShuttingDown /\ remote'.tokens = remote.tokens + 1 =>
       /\ sockets' = sockets /\ promises' = promises
       /\ tts' = tts /\ call' = call]_vars

\* A token arrived while flush was waiting on an open connection, after
\* the end marker was sent.
C14_Witness ==
  /\ remote.late >= 1
  /\ drain.pc = "draining"
  /\ \E s \in Handles : sockets[s].readyState = "OPEN" /\ s \in Drained

\* C15: when the socket of the current connection (ws) or of the current
\* attempt (the stored connectionPromise) is closed, opened before or not,
\* no socket handle and no stored attempt remain afterwards and the
\* waiter of flush is resolved.
ClosesCurrent(s) ==
  /\ sockets[s].readyState # "CLOSED"
  /\ sockets'[s].readyState = "CLOSED"
  /\ (tts.ws = s \/ tts.connectionPromise = s)

C15_CloseResetsConnection ==
  [][\A s \in Handles :
       ClosesCurrent(s) =>
         /\ tts'.ws = Null
         /\ tts'.connectionPromise = Null
         /\ tts'.finalResolve = Null
         /\ (tts.finalPromise # Null => tts.finalPromise \in finals')]_vars

\* C16, as stated: after cancelPendingFiller no timer is armed, the
\* response-received flag and the per-turn counter are what they were, a
\* second call would change nothing, and a call made with no timer armed
\* changes nothing at all.
WorldAfter == [self |-> self', timers |-> timers', readable |-> readable']

CancelFrame ==
  /\ timers'.timeouts = {} /\ timers'.intervals = {}
  /\ self'.timeoutId = Null /\ self'.intervalId = Null
  /\ self'.hasReceivedResponse = self.hasReceivedResponse
  /\ self'.fillersEmittedThisTurn = self.fillersEmittedThisTurn
  /\ readable' = readable
  /\ cancelPendingFiller(WorldAfter) = WorldAfter

C16_CancelChangesNothing ==
  [][CancelPendingFiller =>
       /\ CancelFrame
       /\ (~TimerArmed => WorldAfter = World)]_vars

\* C16, amended: a call made with no timer armed arms and clears no timer
\* and enqueues nothing, but it still sets isProcessing to false and
\* forgets the handles of timers that already fired.
C16_CancelIdempotent ==
  [][CancelPendingFiller =>
       /\ CancelFrame
       /\ (~TimerArmed =>
             /\ timers' = timers
             /\ self' = [self EXCEPT !.isProcessing = FALSE,
                                     !.timeoutId = Null,
                                     !.intervalId = Null])]_vars

\* A turn cancelled after its only filler: no timer was armed at the call,
\* and the call ended the processing state.
C16_Witness ==
  /\ turn.started /\ turn.fired /\ ~turn.token
  /\ turn.cancelled /\ turn.cancelHit = "none"
  /\ turn.fillers = 1
  /\ ~self.isProcessing /\ self.timeoutId = Null

\* C17: on every socket the messages sent follow the framing order: the
\* begin marker is the first message and is sent once, every per-token
\* message comes after it, the end marker is sent at most once, and no
\* per-token message follows the end marker.
IsTokenMessage(m) == m.try_trigger_generation

Framed(sent) ==
  /\ sent # <<>> => sent[1] = BosMessage
  /\ \A i \in 2..Len(sent) : sent[i] # BosMessage
  /\ Cardinality({i \in 1..Len(sent) : sent[i] = EosMessage}) <= 1
  /\ \A i, j \in 1..Len(sent) :
       sent[i] = EosMessage /\ i < j => ~IsTokenMessage(sent[j])

C17_FramingOrder == \A s \in Handles : Framed(sockets[s].sent)

\* Two connections, each with its begin marker and a token; the second was
\* drained by flush.
C17_Witness ==
  /\ Len(sockets) = 2
  /\ \A s \in Handles :
       /\ Len(sockets[s].sent) >= 2
       /\ IsTokenMessage(sockets[s].sent[2])
  /\ 2 \in Drained

\* C18: a flush that sent the end marker is released from its wait only
\* by something that happens after the end marker was sent: a message
\* (the final signal) on the connection it was sent on, the close of that
\* connection, or the flush timer.  A flush that sent no end marker has
\* nothing to wait for.
FlushReleased ==
  /\ drain.pc \in {"idle", "draining"}
  /\ drain'.pc \in {"resuming", "done"}

MessageOnDrained ==
  /\ remote'.msgs = remote.msgs + 1
  /\ \A s \in Handles : sockets[s].receiving => s \in Drained

DrainedCloses ==
  \E s \in Drained :
    sockets[s].readyState # "CLOSED" /\ sockets'[s].readyState = "CLOSED"

FlushTimerFired == drain.timer = "armed" /\ drain'.timer = "fired"

C18_ReleasedAfterEndMarker ==
  [][FlushReleased =>
       \/ drain'.race = Null
       \/ /\ drain.pc = "draining"
          /\ (MessageOnDrained \/ DrainedCloses \/ FlushTimerFired)]_vars

\* C19: at most one threshold timer and at most one repeating timer are
\* armed, and while a timer is armed the turn has received no real token
\* (hasReceivedResponse is false) and isProcessing is true.
C19_TimersOfOneTurn ==
  /\ Cardinality(timers.timeouts) <= 1
  /\ Cardinality(timers.intervals) <= 1
  /\ (TimerArmed => ~self.hasReceivedResponse /\ self.isProcessing)

\* A second turn was started while the repeating timer of the first was
\* running: only the new threshold timer is armed.
C19_Witness ==
  /\ notifyCalls = 2
  /\ Cardinality(timers.timeouts) = 1
  /\ timers.intervals = {}
  /\ self.intervalId # Null

\* C20: once the stream's flush has run (the output is closed), no timer
\* is armed after any step, the output no longer changes, and running
\* flush again would change nothing.
C20_QuietAfterFlush ==
  [][readable'.closed =>
       /\ timers'.timeouts = {} /\ timers'.intervals = {}
       /\ (readable.closed => readable' = readable)
       /\ ThinkingFiller_flush(WorldAfter) = WorldAfter]_vars

\* C11: a failure while a token is processed (the attempt the call awaits
\* is rejected, or the stored attempt it finds is one that was rejected)
\* ends the call normally: no message is sent on any socket, the stream is
\* not errored and stays ready for the next transform call or for flush;
\* and no step of the stage ever puts the stream into its errored state.
AwaitedAttemptRejected ==
  /\ call.pc # "idle" /\ call'.pc = "idle"
  /\ promises'[call.awaits] = "rejected"

StoredAttemptRejected ==
  /\ call.pc = "idle" /\ call'.pc = "idle"
  /\ remote'.tokens = remote.tokens + 1
  /\ ~Usable(AWorld)
  /\ tts.connectionPromise # Null
  /\ promises[tts.connectionPromise] = "rejected"

C11_FailedTokenDropped ==
  [][/\ ~audio'.errored
     /\ (AwaitedAttemptRejected \/ StoredAttemptRejected =>
           /\ Len(sockets') = Len(sockets)
           /\ \A s \in Handles : sockets'[s].sent = sockets[s].sent
           /\ ~audio'.closed /\ drain'.pc = "idle")]_vars

\* A connection attempt was rejected, and a later transform call and flush
\* were processed all the same.
C11_Witness ==
  /\ Len(promises) >= 1 /\ promises[1] = "rejected"
  /\ remote.tokens >= 2
  /\ drain.pc = "done"
  /\ ~audio.errored

=============================================================================
